---- MODULE Spec2Model ----
(***************************************************************************)
(* HybridComputeManager (src/src/mcp_server/hybrid_compute.py): resource   *)
(* sampling with a bounded history, the local/azure placement decision,    *)
(* and execute_task with its single fallback attempt and its registry of   *)
(* running tasks.                                                          *)
(*                                                                         *)
(* Fractions (cpu_percent, estimated_cpu, thresholds ...) are integers in  *)
(* percent; confidence is in 1/1000; cost is in 1/100000; durations        *)
(* returned by a decision are in 1/10 second.  The one place where the     *)
(* rounding of the code's floating-point arithmetic changes an outcome, a  *)
(* sum compared with a threshold, is modelled by SumExceeds.               *)
(***************************************************************************)
EXTENDS Integers, Sequences, FiniteSets, Bags, TLC

VARIABLES
    resource_history,   \* self.resource_history: list of SystemResources
    running_tasks,      \* self.running_tasks: dict task_id -> TaskDefinition
    local_thresholds,   \* self.local_thresholds
    azure_available,    \* self.azure_available
    gpu_enabled,        \* self.settings.gpu_enabled
    clock,              \* int(time.time())
    exec,               \* the execute_task coroutines in flight
    finished,           \* the execute_task call that ended last, as its caller sees it
                        \* (its record without the task_id, a local of the coroutine)
    returned,           \* history variable: every snapshot get_current_resources returned
    failures,           \* history variable: number of samples with a failed read
    lastCall            \* what the last direct call of the manager gave its caller

vars == <<resource_history, running_tasks, local_thresholds, azure_available,
          gpu_enabled, clock, exec, finished, returned, failures, lastCall>>

-----------------------------------------------------------------------------
(* Bounds of the model *)

MaxExec == 2            \* concurrently running execute_task coroutines
MaxClock == 1           \* seconds of wall clock explored by Spec
MaxFailures == 1        \* samples with a failed metric read explored by Spec
MonitorHorizon == 103   \* seconds of wall clock explored by SpecMonitor
MaxDecisions == 1       \* calls made on one manager in SpecDecide
MaxCalls == 3           \* calls made on one manager in SpecPure

(* Program constants *)

HistoryLimit == 100     \* len(self.resource_history) > 100
CpuInterval == 1        \* psutil.cpu_percent(interval=1)

Local == "local"
Azure == "azure"
NoLocation == "none"

-----------------------------------------------------------------------------
(* Inputs *)

\* TaskDefinition values submitted by callers.
Task(n, pr, c, m, d, g, az) ==
    [name |-> n, priority |-> pr, estimated_cpu |-> c, estimated_memory |-> m,
     estimated_duration |-> d, requires_gpu |-> g, can_run_on_azure |-> az]

NoTask == Task("", "low", 0, 0, 0, FALSE, FALSE)

Tasks ==
    { Task("a", "medium", 10, 10, 30, FALSE, TRUE),
      Task("b", "medium", 30, 20, 900, FALSE, TRUE),
      Task("b", "high", 60, 20, 30, FALSE, TRUE) }

MonitorTasks == { Task("a", "medium", 10, 10, 30, FALSE, TRUE) }

\* What the operating system answers to one round of metric reads: the values
\* read, and which read (if any) raises.
ReadFailures == {"none", "cpu", "memory", "disk", "gpu", "network"}

Readings ==
    [cpu : {30}, memory : {30}, disk : {40}, network : {12}, fail : ReadFailures]

MonitorReadings ==
    [cpu : {30}, memory : {30}, disk : {40}, network : {12}, fail : {"none", "gpu"}]

\* One round of metric reads with the given cpu and memory percentages.
Reading(c, m, f) == [cpu |-> c, memory |-> m, disk |-> 40, network |-> 12, fail |-> f]

\* The reads a decision is explored on: an idle and a loaded machine, the
\* values on both sides of the 0.7 load limit, and a failed read.
DecideReadings ==
    { Reading(p[1], p[2], "none") :
        p \in { <<0, 0>>, <<30, 30>>, <<30, 60>>, <<70, 70>>, <<71, 30>>,
                <<30, 71>>, <<75, 75>>, <<90, 30>> } }
    \cup { Reading(30, 30, "memory") }

\* The tasks a decision is explored on: every priority, estimates on both
\* sides of the 0.6 limits and of the thresholds (with the reads above),
\* durations on both sides of 300 s and a duration of 0, gpu and azure flags.
DecideTasks ==
    { Task("d", pr, c, 10, 30, FALSE, TRUE) :
        pr \in {"low", "medium", "high", "critical"}, c \in {10, 60, 61} }
    \cup { Task("d", "medium", c, 10, 30, FALSE, TRUE) : c \in {50, 51} }
    \cup { Task("d", pr, 10, m, 30, FALSE, TRUE) :
             pr \in {"medium", "high"}, m \in {25, 52, 55, 61} }
    \cup { Task("d", "medium", 10, 10, d, g, az) :
             d \in {30, 301}, g \in BOOLEAN, az \in BOOLEAN }
    \cup { Task("d", "medium", 10, 10, d, FALSE, TRUE) : d \in {0, 300} }

\* The tasks and reads on which decisions are compared with one another: two
\* tasks that differ in their name only, and three loads of the machine.
PureTasks ==
    { Task("p", "medium", 10, 10, 30, FALSE, TRUE),
      Task("q", "medium", 10, 10, 30, FALSE, TRUE) }

PureReadings ==
    { Reading(30, 30, "none"), Reading(70, 70, "none"), Reading(75, 75, "none") }

\* The tasks and reads execute_task is explored on next to the decisions.
DispatchTasks ==
    { Task("d", "medium", 10, 10, 30, FALSE, FALSE),
      Task("d", "medium", 10, 10, 301, FALSE, TRUE) }

DispatchReadings == { Reading(30, 30, "none"), Reading(90, 30, "none") }

\* Values a work function returns: plain data, or a response object whose
\* success field is false (AzureFunctionResponse(success=False, ...)).
WorkResults == {"data", "success_false"}

-----------------------------------------------------------------------------
(* ResourceMonitor: get_current_resources *)

SystemResources(c, m, d, g, n, t) ==
    [cpu_percent |-> c, memory_percent |-> m, disk_percent |-> d,
     gpu_percent |-> g, network_io |-> n, timestamp |-> t]

\* _get_gpu_usage: the simulated read returns 0.0, and its own handler turns a
\* failed read into 0.0 as well.
GetGpuUsage(rd) == 0

\* The wall clock after the metric reads of one sample: a cpu read that
\* succeeds has blocked for CpuInterval seconds, one that raises has not.
ClockAfterReads(rd) == IF rd.fail = "cpu" THEN clock ELSE clock + CpuInterval

\* Does a read inside the try block raise?  A failed gpu read is absorbed by
\* _get_gpu_usage, and the gpu is read only when settings.gpu_enabled.
ReadRaises(rd) == rd.fail \in {"cpu", "memory", "disk", "network"}

\* Variant: the handler is narrower than the reads it guards.
HandlerCatches_NotNetwork(rd) == rd.fail # "network"

\* except Exception: every error a metric read raises is an Exception.
HandlerCatches(rd) == TRUE

\* Variant: append without evicting.
AppendBounded_NoEvict(history, resources) == Append(history, resources)

\* self.resource_history.append(resources); pop(0) when longer than 100.
AppendBounded(history, resources) ==
    LET h == Append(history, resources)
    IN IF Len(h) > HistoryLimit THEN Tail(h) ELSE h

\* The except branch: safe defaults, nothing appended.
SafeDefaults(t) == SystemResources(50, 50, 50, 0, 0, t)

\* get_current_resources as a function of the reads: whether it raises, the
\* snapshot it returns, the history and the clock it leaves.
GetCurrentResources(rd) ==
    LET t == ClockAfterReads(rd)
    IN IF ReadRaises(rd)
       THEN IF HandlerCatches(rd)
            THEN [raised |-> FALSE, resources |-> SafeDefaults(t),
                  history |-> resource_history, clock |-> t]
            ELSE [raised |-> TRUE, resources |-> SafeDefaults(t),
                  history |-> resource_history, clock |-> t]
       ELSE LET r == SystemResources(rd.cpu, rd.memory, rd.disk,
                                     IF gpu_enabled THEN GetGpuUsage(rd) ELSE 0,
                                     rd.network, t)
            IN [raised |-> FALSE, resources |-> r,
                history |-> AppendBounded(resource_history, r), clock |-> t]

\* A sample counts as failed when one of its reads failed.
FailedRead(rd) == rd.fail # "none" /\ (rd.fail = "gpu" => gpu_enabled)

\* The effect of one get_current_resources call on the monitor's state.
Sampled(g, rd) ==
    /\ resource_history' = g.history
    /\ clock' = g.clock
    /\ returned' = IF g.raised THEN returned ELSE Append(returned, g.resources)
    /\ failures' = IF FailedRead(rd) THEN failures + 1 ELSE failures

-----------------------------------------------------------------------------
(* DecisionEngine: decide_execution_location and its helpers *)

ComputeDecision(loc, why, conf, cost, dur, alt) ==
    [location |-> loc, reasoning |-> why, confidence |-> conf,
     estimated_cost |-> cost, estimated_duration |-> dur,
     alternative_location |-> alt]

NoDecision == ComputeDecision(NoLocation, "", 0, 0, 0, NoLocation)

Min(a, b) == IF a < b THEN a ELSE b
Max(a, b) == IF a > b THEN a ELSE b

\* a + b > t as the code computes it, in IEEE double arithmetic on fractions
\* given here in whole percent: the rounded sum of two doubles can be one ulp
\* above the double nearest to the decimal sum.  Of the sums that meet a
\* threshold of the table (0.8, 0.85) exactly, these are the pairs rounded
\* up, e.g. 0.65 + 0.2 = 0.8500000000000001 > 0.85.
RoundedUp ==
    { <<4, 81>>, <<5, 80>>, <<6, 79>>, <<7, 78>>, <<17, 68>>, <<18, 67>>,
      <<19, 66>>, <<20, 65>>, <<29, 56>>, <<30, 55>>, <<31, 54>>, <<32, 53>>,
      <<33, 52>>, <<34, 51>>, <<39, 46>>, <<40, 45>>, <<45, 40>>, <<46, 39>>,
      <<51, 34>>, <<52, 33>>, <<53, 32>>, <<54, 31>>, <<55, 30>>, <<56, 29>>,
      <<65, 20>>, <<66, 19>>, <<67, 18>>, <<68, 17>>, <<78, 7>>, <<79, 6>>,
      <<80, 5>>, <<81, 4>> }

SumExceeds(a, b, t) == a + b > t \/ (a + b = t /\ <<a, b>> \in RoundedUp)

\* Variant: the comparisons are not strict.
CanRunLocally_NonStrict(task, resources) ==
    IF resources.cpu_percent + task.estimated_cpu >= local_thresholds.cpu_max
    THEN FALSE
    ELSE IF resources.memory_percent + task.estimated_memory
                >= local_thresholds.memory_max
    THEN FALSE
    ELSE IF task.requires_gpu /\ ~gpu_enabled
    THEN FALSE
    ELSE IF task.requires_gpu /\ resources.gpu_percent >= local_thresholds.gpu_max
    THEN FALSE
    ELSE TRUE

\* _can_run_locally
CanRunLocally(task, resources) ==
    IF SumExceeds(resources.cpu_percent, task.estimated_cpu,
                  local_thresholds.cpu_max)
    THEN FALSE
    ELSE IF SumExceeds(resources.memory_percent, task.estimated_memory,
                       local_thresholds.memory_max)
    THEN FALSE
    ELSE IF task.requires_gpu /\ ~gpu_enabled
    THEN FALSE
    ELSE IF task.requires_gpu /\ resources.gpu_percent > local_thresholds.gpu_max
    THEN FALSE
    ELSE TRUE

\* Variant: a task of exactly 300 s counts as long-running.
ShouldPreferAzure_NonStrictDuration(task, resources) ==
    IF task.priority \in {"high", "critical"}
       /\ (task.estimated_cpu > 60 \/ task.estimated_memory > 60)
    THEN TRUE
    ELSE IF task.estimated_duration >= 300
    THEN TRUE
    ELSE IF resources.cpu_percent > 70 \/ resources.memory_percent > 70
    THEN TRUE
    ELSE FALSE

\* _should_prefer_azure
ShouldPreferAzure(task, resources) ==
    IF task.priority \in {"high", "critical"}
       /\ (task.estimated_cpu > 60 \/ task.estimated_memory > 60)
    THEN TRUE
    ELSE IF task.estimated_duration > 300
    THEN TRUE
    ELSE IF resources.cpu_percent > 70 \/ resources.memory_percent > 70
    THEN TRUE
    ELSE FALSE

\* Variant: the two availabilities are added up, without weights or clamp.
CalculateLocalConfidence_Unweighted(resources) ==
    LET cpu_confidence == 100 - resources.cpu_percent
        memory_confidence == 100 - resources.memory_percent
    IN cpu_confidence * 10 + memory_confidence * 10

\* Variant: the load is taken for the availability (the "1.0 -" is missing).
CalculateLocalConfidence_Inverted(resources) ==
    LET cpu_confidence == resources.cpu_percent
        memory_confidence == resources.memory_percent
        confidence == cpu_confidence * 4 + memory_confidence * 4 + 200
    IN Min(950, Max(100, confidence))

\* _calculate_local_confidence, in 1/1000:
\* min(0.95, max(0.1, (1 - cpu) * 0.4 + (1 - memory) * 0.4 + 0.2))
CalculateLocalConfidence(resources) ==
    LET cpu_confidence == 100 - resources.cpu_percent
        memory_confidence == 100 - resources.memory_percent
        confidence == cpu_confidence * 4 + memory_confidence * 4 + 200
    IN Min(950, Max(100, confidence))

\* Variant: the duration term is left out.
EstimateAzureCost_NoDuration(task) ==
    LET base_cost == 1000
        resource_cost == (task.estimated_cpu + task.estimated_memory) * 5
    IN base_cost + resource_cost

\* _estimate_azure_cost, in 1/100000:
\* 0.01 + (estimated_cpu + estimated_memory) * 0.005 + estimated_duration * 0.001
EstimateAzureCost(task) ==
    LET base_cost == 1000
        resource_cost == (task.estimated_cpu + task.estimated_memory) * 5
        duration_cost == task.estimated_duration * 100
    IN base_cost + resource_cost + duration_cost

\* Variant: the rules in the other order, azure whenever it is feasible.
DecideOn_AzureFirst(task, current_resources) ==
    LET local_feasible == CanRunLocally(task, current_resources)
        azure_feasible == azure_available /\ task.can_run_on_azure
    IN IF azure_feasible
       THEN ComputeDecision(Azure,
                            IF ~local_feasible THEN "local_insufficient"
                                               ELSE "better_suited",
                            800, EstimateAzureCost(task),
                            task.estimated_duration * 12,
                            IF local_feasible THEN Local ELSE NoLocation)
       ELSE IF local_feasible /\ ~ShouldPreferAzure(task, current_resources)
       THEN ComputeDecision(Local, "local_preferred",
                            CalculateLocalConfidence(current_resources), 0,
                            task.estimated_duration * 10, NoLocation)
       ELSE ComputeDecision(Local, "local_fallback", 400, 0,
                            task.estimated_duration * 15, NoLocation)

\* Variant: azure_feasible forgets task.can_run_on_azure.
DecideOn_IgnoresCapability(task, current_resources) ==
    LET local_feasible == CanRunLocally(task, current_resources)
        azure_feasible == azure_available
    IN IF local_feasible /\ ~ShouldPreferAzure(task, current_resources)
       THEN ComputeDecision(Local, "local_preferred",
                            CalculateLocalConfidence(current_resources), 0,
                            task.estimated_duration * 10,
                            IF azure_feasible THEN Azure ELSE NoLocation)
       ELSE IF azure_feasible
       THEN ComputeDecision(Azure,
                            IF ~local_feasible THEN "local_insufficient"
                                               ELSE "better_suited",
                            800, EstimateAzureCost(task),
                            task.estimated_duration * 12,
                            IF local_feasible THEN Local ELSE NoLocation)
       ELSE ComputeDecision(Local, "local_fallback", 400, 0,
                            task.estimated_duration * 15, NoLocation)

\* Variant: the alternative is the other location, feasible or not.
DecideOn_AlwaysAlternative(task, current_resources) ==
    LET local_feasible == CanRunLocally(task, current_resources)
        azure_feasible == azure_available /\ task.can_run_on_azure
    IN IF local_feasible /\ ~ShouldPreferAzure(task, current_resources)
       THEN ComputeDecision(Local, "local_preferred",
                            CalculateLocalConfidence(current_resources), 0,
                            task.estimated_duration * 10, Azure)
       ELSE IF azure_feasible
       THEN ComputeDecision(Azure,
                            IF ~local_feasible THEN "local_insufficient"
                                               ELSE "better_suited",
                            800, EstimateAzureCost(task),
                            task.estimated_duration * 12, Local)
       ELSE ComputeDecision(Local, "local_fallback", 400, 0,
                            task.estimated_duration * 15, NoLocation)

\* Variant: the forced fallback is built like the preferred local decision.
DecideOn_FallbackAsPreferred(task, current_resources) ==
    LET local_feasible == CanRunLocally(task, current_resources)
        azure_feasible == azure_available /\ task.can_run_on_azure
    IN IF local_feasible /\ ~ShouldPreferAzure(task, current_resources)
       THEN ComputeDecision(Local, "local_preferred",
                            CalculateLocalConfidence(current_resources), 0,
                            task.estimated_duration * 10,
                            IF azure_feasible THEN Azure ELSE NoLocation)
       ELSE IF azure_feasible
       THEN ComputeDecision(Azure,
                            IF ~local_feasible THEN "local_insufficient"
                                               ELSE "better_suited",
                            800, EstimateAzureCost(task),
                            task.estimated_duration * 12,
                            IF local_feasible THEN Local ELSE NoLocation)
       ELSE ComputeDecision(Local, "local_fallback",
                            CalculateLocalConfidence(current_resources), 0,
                            task.estimated_duration * 10, NoLocation)

\* Variant: the azure branch forgets the network overhead.
DecideOn_NoOverhead(task, current_resources) ==
    LET local_feasible == CanRunLocally(task, current_resources)
        azure_feasible == azure_available /\ task.can_run_on_azure
    IN IF local_feasible /\ ~ShouldPreferAzure(task, current_resources)
       THEN ComputeDecision(Local, "local_preferred",
                            CalculateLocalConfidence(current_resources), 0,
                            task.estimated_duration * 10,
                            IF azure_feasible THEN Azure ELSE NoLocation)
       ELSE IF azure_feasible
       THEN ComputeDecision(Azure,
                            IF ~local_feasible THEN "local_insufficient"
                                               ELSE "better_suited",
                            800, EstimateAzureCost(task),
                            task.estimated_duration * 10,
                            IF local_feasible THEN Local ELSE NoLocation)
       ELSE ComputeDecision(Local, "local_fallback", 400, 0,
                            task.estimated_duration * 15, NoLocation)

\* Variant: local counts as feasible only while no task is running.
DecideOn_CountsRunning(task, current_resources) ==
    LET local_feasible == CanRunLocally(task, current_resources)
                          /\ DOMAIN running_tasks = {}
        azure_feasible == azure_available /\ task.can_run_on_azure
    IN IF local_feasible /\ ~ShouldPreferAzure(task, current_resources)
       THEN ComputeDecision(Local, "local_preferred",
                            CalculateLocalConfidence(current_resources), 0,
                            task.estimated_duration * 10,
                            IF azure_feasible THEN Azure ELSE NoLocation)
       ELSE IF azure_feasible
       THEN ComputeDecision(Azure,
                            IF ~local_feasible THEN "local_insufficient"
                                               ELSE "better_suited",
                            800, EstimateAzureCost(task),
                            task.estimated_duration * 12,
                            IF local_feasible THEN Local ELSE NoLocation)
       ELSE ComputeDecision(Local, "local_fallback", 400, 0,
                            task.estimated_duration * 15, NoLocation)

\* The decision decide_execution_location takes on a snapshot.
DecideOn(task, current_resources) ==
    LET local_feasible == CanRunLocally(task, current_resources)
        azure_feasible == azure_available /\ task.can_run_on_azure
    IN IF local_feasible /\ ~ShouldPreferAzure(task, current_resources)
       THEN ComputeDecision(Local, "local_preferred",
                            CalculateLocalConfidence(current_resources), 0,
                            task.estimated_duration * 10,
                            IF azure_feasible THEN Azure ELSE NoLocation)
       ELSE IF azure_feasible
       THEN ComputeDecision(Azure,
                            IF ~local_feasible THEN "local_insufficient"
                                               ELSE "better_suited",
                            800, EstimateAzureCost(task),
                            task.estimated_duration * 12,
                            IF local_feasible THEN Local ELSE NoLocation)
       ELSE ComputeDecision(Local, "local_fallback", 400, 0,
                            task.estimated_duration * 15, NoLocation)

\* The two feasibility flags decide_execution_location computes and the value
\* of _should_prefer_azure on the same task and snapshot.
Judgement(task, current_resources) ==
    [local_feasible |-> CanRunLocally(task, current_resources),
     azure_feasible |-> azure_available /\ task.can_run_on_azure,
     prefer_azure |-> ShouldPreferAzure(task, current_resources)]

NoJudgement ==
    [local_feasible |-> FALSE, azure_feasible |-> FALSE, prefer_azure |-> FALSE]

-----------------------------------------------------------------------------
(* TaskRegistry: the running_tasks dict *)

\* task_id = f"{task.name}_{int(time.time())}"
TaskId(task, now) == <<task.name, now>>

NoId == <<"", 0>>

EmptyRegistry == [id \in {} |-> NoTask]

\* self.running_tasks[task_id] = task
Register(registry, id, task) ==
    [x \in (DOMAIN registry) \cup {id} |-> IF x = id THEN task ELSE registry[x]]

\* if task_id in self.running_tasks: del self.running_tasks[task_id]
Unregister(registry, id) ==
    [x \in (DOMAIN registry) \ {id} |-> registry[x]]

-----------------------------------------------------------------------------
(* ExecutionDispatcher: execute_task *)

NoOutcome == [kind |-> "none", value |-> "none", error |-> "none"]

\* id_at_exit is a history field: whether the coroutine's task_id is a key of
\* running_tasks at the moment the coroutine hands its outcome to the caller.
IdleExec ==
    [pc |-> "idle", task |-> NoTask, decision |-> NoDecision, task_id |-> NoId,
     attempts |-> <<>>, calls |-> 0, outcome |-> NoOutcome, id_at_exit |-> FALSE]

\* The execute_task coroutines in flight are a bag of records: coroutines
\* have no identity of their own, and two of them can be in the same state.
InFlight == BagToSet(exec)

Started(e) == exec (+) SetToBag({e})
Ended(e) == exec (-) SetToBag({e})
Advanced(e, e2) == Ended(e) (+) SetToBag({e2})

\* Entering _execute_local or _execute_azure at a location: the local path
\* invokes the work function at once, the azure path first sleeps.
StartAttempt(e, loc) ==
    [e EXCEPT !.attempts = Append(@, [location |-> loc, result |-> "running"]),
              !.pc = IF loc = Local THEN "work" ELSE "sleep",
              !.calls = IF loc = Local THEN @ + 1 ELSE @]

\* The running attempt ends with the given result.
EndAttempt(e, result) ==
    [e EXCEPT !.attempts[Len(e.attempts)].result = result]

\* Variant: except BaseException, which catches the CancelledError too.
ExceptCatches_Everything(kind) == TRUE

\* except Exception as e: an error is caught, asyncio.CancelledError (a
\* BaseException) is not.
ExceptCatches(kind) == kind = "error"

\* Variant: the retry goes to the location that has just failed.
RetryLocation_Same(e, kind) ==
    IF Len(e.attempts) = 1 /\ ExceptCatches(kind)
       /\ e.decision.alternative_location # NoLocation
    THEN e.decision.location
    ELSE NoLocation

\* Variant: without an alternative the retry goes to the local path.
RetryLocation_LocalByDefault(e, kind) ==
    IF Len(e.attempts) = 1 /\ ExceptCatches(kind)
    THEN IF e.decision.alternative_location # NoLocation
         THEN e.decision.alternative_location
         ELSE Local
    ELSE NoLocation

\* Variant: the handler is a loop, a failed retry goes back to the location
\* first chosen.
RetryLocation_Again(e, kind) ==
    IF ExceptCatches(kind) /\ e.decision.alternative_location # NoLocation
    THEN IF Len(e.attempts) = 1 THEN e.decision.alternative_location
                                ELSE e.decision.location
    ELSE NoLocation

\* The except block of execute_task, entered from the primary attempt only:
\* the location to retry at, or NoLocation to re-raise.
RetryLocation(e, kind) ==
    IF Len(e.attempts) = 1 /\ ExceptCatches(kind)
    THEN e.decision.alternative_location
    ELSE NoLocation

\* Variant: the except block lacks its return, so the retry's result is lost
\* and the bare raise re-raises the primary error.
ReturnOutcome_LostAfterRetry(e, v) ==
    IF Len(e.attempts) = 2
    THEN [kind |-> "raised", value |-> "none", error |-> "primary"]
    ELSE [kind |-> "returned", value |-> v, error |-> "none"]

\* return result (after the primary attempt or after the retry).
ReturnOutcome(e, v) == [kind |-> "returned", value |-> v, error |-> "none"]

\* What propagates out of execute_task when nothing is retried: the error of
\* the primary attempt (bare raise), the error of the retry, or the
\* CancelledError.
RaiseOutcome(e, kind) ==
    [kind |-> IF kind = "error" THEN "raised" ELSE "cancelled",
     value |-> "none",
     error |-> IF Len(e.attempts) = 1 THEN "primary" ELSE "retry"]

\* Variant: no cleanup.
Finally_Skipped(registry, id) == registry

\* finally: remove the task from running_tasks.
Finally(registry, id) == Unregister(registry, id)

\* Variant: the cleanup sits in the except Exception handler and after the
\* return, so a cancelled call leaves its entry behind.
Leave_KeepsOnCancel(e, e1, outcome) ==
    /\ running_tasks' = IF outcome.kind = "cancelled" THEN running_tasks
                        ELSE Finally(running_tasks, e.task_id)
    /\ finished' = [e1 EXCEPT !.pc = "done", !.outcome = outcome, !.task_id = NoId,
                              !.id_at_exit = e.task_id \in DOMAIN running_tasks']
    /\ exec' = Ended(e)

\* Leaving execute_task after the task was registered, through finally: the
\* caller gets the outcome, the coroutine is gone.  e is the coroutine's
\* record before its last step, e1 the record it ends with.
Leave(e, e1, outcome) ==
    /\ running_tasks' = Finally(running_tasks, e.task_id)
    /\ finished' = [e1 EXCEPT !.pc = "done", !.outcome = outcome, !.task_id = NoId,
                              !.id_at_exit = e.task_id \in DOMAIN running_tasks']
    /\ exec' = Ended(e)

\* execute_task up to its first suspension: decide (which samples), register
\* the task, start the primary attempt.  At most `slots` coroutines run.
ExecuteTask(task, rd, slots) ==
    /\ BagCardinality(exec) < slots
    /\ LET g == GetCurrentResources(rd)
           decision == DecideOn(task, g.resources)
           task_id == TaskId(task, g.clock)
           e == [IdleExec EXCEPT !.task = task]
       IN /\ Sampled(g, rd)
          /\ IF g.raised
             THEN /\ finished' =
                        [e EXCEPT !.pc = "done",
                                  !.outcome = [kind |-> "raised", value |-> "none",
                                               error |-> "sampling"]]
                  /\ UNCHANGED <<exec, running_tasks>>
             ELSE /\ exec' = Started(StartAttempt([e EXCEPT !.decision = decision,
                                                            !.task_id = task_id],
                                                  decision.location))
                  /\ running_tasks' = Register(running_tasks, task_id, task)
                  /\ UNCHANGED finished
    /\ UNCHANGED <<local_thresholds, azure_available, gpu_enabled, lastCall>>

\* _execute_azure: asyncio.sleep(0.1) is over, the work function is invoked.
AzureWakes(e) ==
    /\ e \in InFlight
    /\ e.pc = "sleep"
    /\ exec' = Advanced(e, [e EXCEPT !.pc = "work", !.calls = @ + 1])
    /\ UNCHANGED <<resource_history, running_tasks, local_thresholds, finished,
                   azure_available, gpu_enabled, clock, returned, failures, lastCall>>

\* The work function returns: execute_task returns its value.
WorkReturns(e, v) ==
    /\ e \in InFlight
    /\ e.pc = "work"
    /\ Leave(e, EndAttempt(e, v), ReturnOutcome(e, v))
    /\ UNCHANGED <<resource_history, local_thresholds, azure_available,
                   gpu_enabled, clock, returned, failures, lastCall>>

\* The running attempt raises: an error of the work function, or the
\* CancelledError of a caller that cancels the call.
AttemptRaises(e, kind) ==
    LET e1 == EndAttempt(e, IF kind = "error" THEN "raised" ELSE "cancelled")
        alt == RetryLocation(e, kind)
    IN /\ IF alt # NoLocation
          THEN /\ exec' = Advanced(e, StartAttempt(e1, alt))
               /\ UNCHANGED <<running_tasks, finished>>
          ELSE Leave(e, e1, RaiseOutcome(e, kind))
       /\ UNCHANGED <<resource_history, local_thresholds, azure_available,
                      gpu_enabled, clock, returned, failures, lastCall>>

WorkRaises(e) ==
    /\ e \in InFlight
    /\ e.pc = "work"
    /\ AttemptRaises(e, "error")

Cancelled(e) ==
    /\ e \in InFlight
    /\ e.pc \in {"sleep", "work"}
    /\ AttemptRaises(e, "cancelled")

-----------------------------------------------------------------------------
(* Direct calls of the manager *)

NoReads == [cpu |-> 0, memory |-> 0, disk |-> 0, network |-> 0, fail |-> "none"]

NoResources == SystemResources(0, 0, 0, 0, 0, 0)

\* What a direct call leaves with its caller, and what it was called on: the
\* operation, whether it raised, the metric reads it made and the snapshot
\* get_current_resources returned, and for a decision the task, the flags
\* computed on the way and the decision returned.  The snapshot is kept
\* without its timestamp, which no rule of the manager reads.
Call(op, raised, rd, resources, task, judged, decision) ==
    [op |-> op, raised |-> raised, reads |-> rd,
     resources |-> [resources EXCEPT !.timestamp = 0],
     task |-> task, judged |-> judged, decision |-> decision]

NoCall == Call("none", FALSE, NoReads, NoResources, NoTask, NoJudgement, NoDecision)

\* get_current_resources called by the server
SampleCall(rd) ==
    /\ LET g == GetCurrentResources(rd)
       IN /\ Sampled(g, rd)
          /\ lastCall' = Call("sample", g.raised, rd,
                              IF g.raised THEN NoResources ELSE g.resources,
                              NoTask, NoJudgement, NoDecision)
    /\ UNCHANGED <<running_tasks, local_thresholds, azure_available, gpu_enabled,
                   exec, finished>>

\* decide_execution_location
DecideCall(task, rd) ==
    /\ LET g == GetCurrentResources(rd)
       IN /\ Sampled(g, rd)
          /\ lastCall' =
                IF g.raised
                THEN Call("decide", TRUE, rd, NoResources, task, NoJudgement,
                          NoDecision)
                ELSE Call("decide", FALSE, rd, g.resources, task,
                          Judgement(task, g.resources), DecideOn(task, g.resources))
    /\ UNCHANGED <<running_tasks, local_thresholds, azure_available, gpu_enabled,
                   exec, finished>>

\* get_system_status
StatusCall(rd) ==
    /\ LET g == GetCurrentResources(rd)
       IN /\ Sampled(g, rd)
          /\ lastCall' = Call("status", g.raised, rd,
                              IF g.raised THEN NoResources ELSE g.resources,
                              NoTask, NoJudgement, NoDecision)
    /\ UNCHANGED <<running_tasks, local_thresholds, azure_available, gpu_enabled,
                   exec, finished>>

\* Variant: the cpu threshold is lowered as well.
OptimizeForWindows_AlsoCpu ==
    /\ local_thresholds' = [local_thresholds EXCEPT !.memory_max = 80,
                                                    !.cpu_max = 70]
    /\ lastCall' = Call("optimize", FALSE, NoReads, NoResources, NoTask, NoJudgement,
                     NoDecision)
    /\ UNCHANGED <<resource_history, running_tasks, azure_available, gpu_enabled,
                   clock, exec, finished, returned, failures>>

\* optimize_for_windows
OptimizeForWindows ==
    /\ local_thresholds' = [local_thresholds EXCEPT !.memory_max = 80]
    /\ lastCall' = Call("optimize", FALSE, NoReads, NoResources, NoTask, NoJudgement,
                     NoDecision)
    /\ UNCHANGED <<resource_history, running_tasks, azure_available, gpu_enabled,
                   clock, exec, finished, returned, failures>>

\* Time passes while the event loop waits.
Tick(horizon) ==
    /\ clock < horizon
    /\ clock' = clock + 1
    /\ UNCHANGED <<resource_history, running_tasks, local_thresholds,
                   azure_available, gpu_enabled, exec, finished, returned, failures,
                   lastCall>>

-----------------------------------------------------------------------------
(* Specifications *)

\* __init__: empty history and registry, default thresholds; azure_available
\* and gpu_enabled as the settings say.
Init ==
    /\ resource_history = <<>>
    /\ running_tasks = EmptyRegistry
    /\ local_thresholds = [cpu_max |-> 80, memory_max |-> 85, disk_max |-> 90,
                           gpu_max |-> 90]
    /\ azure_available \in BOOLEAN
    /\ gpu_enabled \in BOOLEAN
    /\ clock = 0
    /\ exec = EmptyBag
    /\ finished = IdleExec
    /\ returned = <<>>
    /\ failures = 0
    /\ lastCall = NoCall

\* The reads explored: within the clock horizon and the failure budget.
Explored(rd, horizon, budget) ==
    /\ ClockAfterReads(rd) <= horizon
    /\ FailedRead(rd) => failures < budget
    /\ rd.fail = "gpu" => gpu_enabled

\* The dispatcher: execute_task coroutines running concurrently on one event
\* loop, each started by a caller, ended by its work function or cancelled.
Next ==
    \/ \E rd \in Readings, t \in Tasks :
          Explored(rd, MaxClock, MaxFailures) /\ ExecuteTask(t, rd, MaxExec)
    \/ \E e \in InFlight : AzureWakes(e)
    \/ \E e \in InFlight, v \in WorkResults : WorkReturns(e, v)
    \/ \E e \in InFlight : WorkRaises(e)
    \/ \E e \in InFlight : Cancelled(e)
    \/ Tick(MaxClock)

\* Settings.gpu_enabled has its default (False) here.
InitDispatcher == Init /\ ~gpu_enabled

Spec == InitDispatcher /\ [][Next]_vars

\* A coroutine in flight takes its next step: the sleep of the azure path
\* ends, or the work function returns, raises or is cancelled.
Progress ==
    \E e \in InFlight :
        \/ AzureWakes(e)
        \/ \E v \in WorkResults : WorkReturns(e, v)
        \/ WorkRaises(e)
        \/ Cancelled(e)

\* The calls the dispatcher is followed to its end on: a task decided local
\* and one decided azure (when available), reads that succeed or fail at the
\* cpu read (so that two calls can start within one second).
DrainTasks == { t \in Tasks : t.priority = "medium" }

DrainReadings == { rd \in Readings : rd.fail \in {"none", "cpu"} }

NextDrain ==
    \/ \E rd \in DrainReadings, t \in DrainTasks :
          Explored(rd, MaxClock, MaxFailures) /\ ExecuteTask(t, rd, MaxExec)
    \/ \E e \in InFlight : AzureWakes(e)
    \/ \E e \in InFlight, v \in WorkResults : WorkReturns(e, v)
    \/ \E e \in InFlight : WorkRaises(e)
    \/ \E e \in InFlight : Cancelled(e)

\* The dispatcher on an event loop that keeps running, with work functions
\* that all end: a coroutine that can take a step eventually takes one.
SpecLive == InitDispatcher /\ [][NextDrain]_vars /\ WF_vars(Progress)

\* The whole manager: the direct calls interleaved with one execute_task
\* coroutine.
NextApi ==
    \/ \E rd \in Readings : Explored(rd, MaxClock, MaxFailures) /\ SampleCall(rd)
    \/ \E rd \in Readings, t \in Tasks :
          Explored(rd, MaxClock, MaxFailures) /\ DecideCall(t, rd)
    \/ \E rd \in Readings : Explored(rd, MaxClock, MaxFailures) /\ StatusCall(rd)
    \/ \E rd \in Readings, t \in Tasks :
          Explored(rd, MaxClock, MaxFailures) /\ ExecuteTask(t, rd, 1)
    \/ \E e \in InFlight : AzureWakes(e)
    \/ \E e \in InFlight, v \in WorkResults : WorkReturns(e, v)
    \/ \E e \in InFlight : WorkRaises(e)
    \/ \E e \in InFlight : Cancelled(e)
    \/ OptimizeForWindows
    \/ Tick(MaxClock)

SpecApi == Init /\ [][NextApi]_vars

\* The whole manager driven by one caller that awaits each call, long enough
\* for the history to fill and evict: one task, one value per metric, every
\* read succeeding.
NextMonitor ==
    \/ \E rd \in MonitorReadings :
          Explored(rd, MonitorHorizon, 0) /\ exec = EmptyBag /\ SampleCall(rd)
    \/ \E rd \in MonitorReadings, t \in MonitorTasks :
          Explored(rd, MonitorHorizon, 0) /\ exec = EmptyBag /\ DecideCall(t, rd)
    \/ \E rd \in MonitorReadings :
          Explored(rd, MonitorHorizon, 0) /\ exec = EmptyBag /\ StatusCall(rd)
    \/ \E rd \in MonitorReadings, t \in MonitorTasks :
          Explored(rd, MonitorHorizon, 0) /\ ExecuteTask(t, rd, 1)
    \/ \E e \in InFlight : AzureWakes(e)
    \/ \E e \in InFlight, v \in WorkResults : WorkReturns(e, v)
    \/ \E e \in InFlight : WorkRaises(e)
    \/ \E e \in InFlight : Cancelled(e)

SpecMonitor == Init /\ [][NextMonitor]_vars

\* The decision engine on one manager: MaxDecisions calls, each a decision
\* or an execute_task, on tasks and reads around every limit of the rules;
\* optimize_for_windows may run before or after any of them.
NextDecide ==
    \/ \E rd \in DecideReadings, t \in DecideTasks :
          Len(returned) < MaxDecisions /\ DecideCall(t, rd)
    \/ \E rd \in DispatchReadings, t \in DispatchTasks :
          Len(returned) < MaxDecisions /\ ExecuteTask(t, rd, 1)
    \/ \E e \in InFlight : AzureWakes(e)
    \/ \E e \in InFlight, v \in WorkResults : WorkReturns(e, v)
    \/ \E e \in InFlight : WorkRaises(e)
    \/ \E e \in InFlight : Cancelled(e)
    \/ OptimizeForWindows

SpecDecide == Init /\ [][NextDecide]_vars

\* Decisions taken one after another on one manager, between them
\* execute_task calls that fill the history and the registry, and
\* optimize_for_windows: MaxCalls calls in all.
NextPure ==
    \/ \E rd \in PureReadings, t \in PureTasks :
          Len(returned) < MaxCalls /\ DecideCall(t, rd)
    \/ \E rd \in PureReadings, t \in PureTasks :
          Len(returned) < MaxCalls /\ ExecuteTask(t, rd, 1)
    \/ \E e \in InFlight : AzureWakes(e)
    \/ \E e \in InFlight, v \in WorkResults : WorkReturns(e, v)
    \/ \E e \in InFlight : WorkRaises(e)
    \/ \E e \in InFlight : Cancelled(e)
    \/ OptimizeForWindows

SpecPure == InitDispatcher /\ [][NextPure]_vars

-----------------------------------------------------------------------------
(* Properties *)

\* Every execute_task record there is: the coroutines in flight and the call
\* that ended last.
AllRecords == InFlight \cup {finished}

HasAlternative(r) == r.decision.alternative_location # NoLocation

PrimaryResult(r) == IF r.attempts = <<>> THEN "none" ELSE r.attempts[1].result

LastN(seq, n) == SubSeq(seq, Len(seq) - n + 1, Len(seq))

\* C1 -- Fallback law: a call whose primary attempt failed with an error while
\* an alternative location is set makes exactly one further attempt, at the
\* alternative location; if that attempt fails too the call ends by raising,
\* with no third attempt, and its task id is not in the registry afterwards.
FallbackLaw ==
    \A r \in AllRecords :
        (PrimaryResult(r) = "raised" /\ HasAlternative(r)) =>
            /\ Len(r.attempts) = 2
            /\ r.attempts[2].location = r.decision.alternative_location
            /\ r.attempts[2].location # r.attempts[1].location
            /\ r.attempts[2].result = "raised" =>
                   (r.pc = "done" /\ r.outcome.kind = "raised" /\ ~r.id_at_exit)

FallbackLawWitness ==
    /\ finished.pc = "done"
    /\ HasAlternative(finished)
    /\ Len(finished.attempts) = 2
    /\ finished.attempts[1].result = "raised"
    /\ finished.attempts[2].result = "raised"
    /\ finished.outcome.kind = "raised"

\* C2 -- Successful fallback: when the primary attempt raised, an alternative
\* is set and the attempt there succeeds, execute_task returns that attempt's
\* result and raises nothing.
SuccessfulFallback ==
    (/\ finished.pc = "done"
     /\ PrimaryResult(finished) = "raised"
     /\ HasAlternative(finished)
     /\ Len(finished.attempts) = 2
     /\ finished.attempts[2].result \in WorkResults)
    => finished.outcome = [kind |-> "returned",
                           value |-> finished.attempts[2].result,
                           error |-> "none"]

SuccessfulFallbackWitness ==
    /\ finished.pc = "done"
    /\ finished.decision.location = Azure
    /\ finished.decision.alternative_location = Local
    /\ finished.attempts = <<[location |-> Azure, result |-> "raised"],
                             [location |-> Local, result |-> "data"]>>
    /\ finished.outcome.kind = "returned"

\* C3 -- No-alternative law: without an alternative location a failed primary
\* attempt is the only attempt (the work function is invoked once) and its
\* error is raised to the caller.
NoAlternativeLaw ==
    \A r \in AllRecords :
        (r.attempts # <<>> /\ ~HasAlternative(r)) =>
            /\ Len(r.attempts) = 1
            /\ r.attempts[1].result = "raised" =>
                   /\ r.pc = "done"
                   /\ r.calls = 1
                   /\ r.outcome = [kind |-> "raised", value |-> "none",
                                   error |-> "primary"]

NoAlternativeLawWitness ==
    /\ finished.pc = "done"
    /\ ~HasAlternative(finished)
    /\ finished.attempts = <<[location |-> Azure, result |-> "raised"]>>
    /\ finished.outcome.kind = "raised"

\* C4 -- Guaranteed cleanup: on every exit of execute_task after the task was
\* registered (return, error, cancellation, from the primary attempt or from
\* the retry) the id under which it registered is not in the registry.
GuaranteedCleanup ==
    (finished.pc = "done" /\ finished.attempts # <<>>) => ~finished.id_at_exit

GuaranteedCleanupWitness ==
    /\ finished.pc = "done"
    /\ Len(finished.attempts) = 2
    /\ finished.outcome.kind = "cancelled"
    /\ exec = EmptyBag
    /\ running_tasks = EmptyRegistry

\* C5 -- The registry tracks the executions in flight exactly: every
\* execution in flight has an entry under an id of its own, and every entry
\* belongs to an execution in flight.
RegistryTracksInFlight ==
    /\ \A e \in InFlight : e.task_id \in DOMAIN running_tasks
    /\ \A id \in DOMAIN running_tasks :
          LET S == {e \in InFlight : e.task_id = id}
          IN Cardinality(S) = 1 /\ \A e \in S : CopiesIn(e, exec) = 1

\* C6 -- Cancellation bypasses the fallback: a call cancelled during its
\* primary attempt makes no attempt at the alternative location, ends with the
\* cancellation, and its task is deregistered.
CancellationBypassesFallback ==
    \A r \in AllRecords :
        PrimaryResult(r) = "cancelled" =>
            /\ Len(r.attempts) = 1
            /\ r.pc = "done"
            /\ r.outcome.kind = "cancelled"
            /\ ~r.id_at_exit

CancellationWitness ==
    /\ finished.pc = "done"
    /\ HasAlternative(finished)
    /\ Len(finished.attempts) = 1
    /\ finished.attempts[1].result = "cancelled"
    /\ finished.outcome.kind = "cancelled"

\* C7 -- A remote attempt answered by a response with success == false counts
\* as a failed attempt: it is followed by the retry at the alternative location
\* when there is one and by an error otherwise, and is never the call's result.
RemoteFailureResponseIsFailure ==
    \A r \in AllRecords :
        \A i \in 1..Len(r.attempts) :
            (r.attempts[i].location = Azure
             /\ r.attempts[i].result = "success_false") =>
                IF i = 1 /\ HasAlternative(r)
                THEN Len(r.attempts) = 2
                ELSE r.pc = "done" /\ r.outcome.kind = "raised"

\* C8 -- History bound: the resource history never holds more than 100
\* entries, whatever calls were made.
HistoryBound == Len(resource_history) <= 100

HistoryBoundWitness ==
    /\ Len(resource_history) = 100
    /\ Len(returned) > 100
    /\ resource_history[1] = returned[Len(returned) - 99]

\* C9 -- FIFO eviction: after n samples on a fresh monitor the history is the
\* last min(n, 100) snapshots returned, oldest first.
HistoryIsLastReturned ==
    resource_history = LastN(returned, Min(Len(returned), 100))

\* C10 -- A sample never raises, whichever metric read fails, so no direct
\* call and no execute_task call fails because of a sampling error.
SampleNeverRaises ==
    /\ ~lastCall.raised
    /\ finished.outcome.error # "sampling"

SampleNeverRaisesWitness ==
    /\ failures > 0
    /\ lastCall.op = "status"
    /\ returned # <<>>
    /\ returned[Len(returned)] = SafeDefaults(clock)

\* The calls that sample: lastCall is the record of one of them.
SamplingOps == {"sample", "decide", "status"}

\* C11 -- Per-metric default: when the read of one metric fails during a
\* sample, the returned snapshot carries 0.5 for that metric only, and every
\* metric whose read succeeded carries the value read.
PerMetricDefault ==
    (lastCall.op \in SamplingOps /\ ~lastCall.raised) =>
        LET rd == lastCall.reads
            s == lastCall.resources
            failed(metric) == rd.fail = metric /\ (metric = "gpu" => gpu_enabled)
        IN /\ s.cpu_percent = IF failed("cpu") THEN 50 ELSE rd.cpu
           /\ s.memory_percent = IF failed("memory") THEN 50 ELSE rd.memory
           /\ s.disk_percent = IF failed("disk") THEN 50 ELSE rd.disk
           /\ s.gpu_percent = IF failed("gpu") THEN 50 ELSE 0
           /\ ~failed("network") => s.network_io = rd.network

\* C12 -- Every sample appends the snapshot it returns, also after a failed
\* read: below 100 entries the history has one entry per snapshot returned,
\* and its last entry is the snapshot returned last.
EverySampleAppended ==
    /\ Len(returned) < 100 => Len(resource_history) = Len(returned)
    /\ returned # <<>> =>
          /\ resource_history # <<>>
          /\ resource_history[Len(resource_history)] = returned[Len(returned)]

\* C13 -- Decision rule: a decision is local when local is feasible and azure
\* is not preferred, otherwise azure when azure is feasible, otherwise local
\* as the forced fallback; decide returns one of the three and never fails.
DecisionRule ==
    lastCall.op = "decide" =>
        LET j == lastCall.judged
            d == lastCall.decision
        IN /\ ~lastCall.raised
           /\ d.location \in {Local, Azure}
           /\ IF j.local_feasible /\ ~j.prefer_azure
              THEN d.location = Local /\ d.reasoning = "local_preferred"
              ELSE IF j.azure_feasible
              THEN d.location = Azure
              ELSE d.location = Local /\ d.reasoning = "local_fallback"

\* Scenario B: cpu 0.75, memory 0.75, the small task, azure available.
DecisionRuleWitness ==
    /\ lastCall.op = "decide"
    /\ lastCall.reads = Reading(75, 75, "none")
    /\ lastCall.task = Task("d", "medium", 10, 10, 30, FALSE, TRUE)
    /\ azure_available
    /\ lastCall.decision.location = Azure
    /\ lastCall.decision.estimated_cost > 0

\* C14 -- Azure only when allowed: no decision names azure as its location
\* or its alternative, and no attempt of execute_task (primary or retry) runs
\* on azure, unless azure is available and the task can run on azure.
RemoteOnlyWhenAllowed ==
    /\ (lastCall.op = "decide" /\ Azure \in {lastCall.decision.location,
                                              lastCall.decision.alternative_location})
          => (azure_available /\ lastCall.task.can_run_on_azure)
    /\ \A r \in AllRecords :
          /\ Azure \in {r.decision.location, r.decision.alternative_location}
                => (azure_available /\ r.task.can_run_on_azure)
          /\ \A i \in 1..Len(r.attempts) :
                r.attempts[i].location = Azure
                    => (azure_available /\ r.task.can_run_on_azure)

\* A task that cannot run on azure fails locally while azure is available:
\* no attempt is made on azure.
RemoteOnlyWhenAllowedWitness ==
    /\ azure_available
    /\ finished.pc = "done"
    /\ ~finished.task.can_run_on_azure
    /\ finished.attempts = <<[location |-> Local, result |-> "raised"]>>
    /\ finished.outcome.kind = "raised"

\* C15 -- Local feasibility: local execution is judged infeasible exactly
\* when cpu + estimated_cpu > 0.8, or memory + estimated_memory > 0.85, or the
\* task requires a gpu and the gpu is disabled or busier than 0.9; a sum equal
\* to its threshold is feasible; these thresholds hold for every decision.
LocalFeasibilityDefaults ==
    lastCall.op = "decide" =>
        LET t == lastCall.task
            s == lastCall.resources
        IN lastCall.judged.local_feasible =
               ~ \/ s.cpu_percent + t.estimated_cpu > 80
                 \/ s.memory_percent + t.estimated_memory > 85
                 \/ t.requires_gpu /\ (~gpu_enabled \/ s.gpu_percent > 90)

\* C15 as amended -- the thresholds are those of the threshold table at the
\* time of the decision (cpu_max 0.8, gpu_max 0.9, memory_max 0.85 or, once
\* optimize_for_windows has run, 0.8), and each sum is the floating-point sum
\* the code computes: a sum computed equal to its threshold is feasible.
LocalFeasibilityInForce ==
    /\ local_thresholds.cpu_max = 80
    /\ local_thresholds.gpu_max = 90
    /\ local_thresholds.memory_max \in {80, 85}
    /\ lastCall.op = "decide" =>
          LET t == lastCall.task
              s == lastCall.resources
          IN lastCall.judged.local_feasible =
                 ~ \/ SumExceeds(s.cpu_percent, t.estimated_cpu,
                                 local_thresholds.cpu_max)
                   \/ SumExceeds(s.memory_percent, t.estimated_memory,
                                 local_thresholds.memory_max)
                   \/ t.requires_gpu
                        /\ (~gpu_enabled \/ s.gpu_percent > local_thresholds.gpu_max)

\* After optimize_for_windows a memory sum of 0.82 is infeasible, while a
\* cpu sum of exactly 0.8 would be feasible.
LocalFeasibilityInForceWitness ==
    /\ lastCall.op = "decide"
    /\ local_thresholds.memory_max = 80
    /\ lastCall.resources.cpu_percent = 30
    /\ lastCall.resources.memory_percent = 30
    /\ lastCall.task.estimated_cpu = 10
    /\ lastCall.task.estimated_memory = 52
    /\ ~lastCall.task.requires_gpu
    /\ ~lastCall.judged.local_feasible

\* C16 -- Preference for azure: true exactly when the priority is high or
\* critical and an estimate is above 0.6, or the duration is above 300 s, or
\* the snapshot's cpu or memory is above 0.7; every comparison is strict.
PreferenceRule ==
    lastCall.op = "decide" =>
        LET t == lastCall.task
            s == lastCall.resources
        IN lastCall.judged.prefer_azure =
               \/ /\ t.priority \in {"high", "critical"}
                  /\ (t.estimated_cpu > 60 \/ t.estimated_memory > 60)
               \/ t.estimated_duration > 300
               \/ s.cpu_percent > 70
               \/ s.memory_percent > 70

\* On an idle machine a high-priority task with estimated_cpu 0.61 is feasible
\* locally and sent to azure by preference.
PreferenceRuleWitness ==
    /\ lastCall.op = "decide"
    /\ lastCall.reads = Reading(0, 0, "none")
    /\ lastCall.task = Task("d", "high", 61, 10, 30, FALSE, TRUE)
    /\ lastCall.judged.local_feasible
    /\ lastCall.judged.prefer_azure
    /\ azure_available
    /\ lastCall.decision.reasoning = "better_suited"

\* C17 -- The alternative location is the location not chosen when that
\* location is feasible, and absent otherwise: azure iff the decision is local
\* and azure is feasible, local iff the decision is azure and local is
\* feasible, never the decision's own location.
AlternativeRule ==
    lastCall.op = "decide" =>
        LET d == lastCall.decision
            azure_ok == azure_available /\ lastCall.task.can_run_on_azure
            local_ok == lastCall.judged.local_feasible
        IN /\ d.alternative_location \in {Local, Azure, NoLocation}
           /\ d.alternative_location = Azure <=> (d.location = Local /\ azure_ok)
           /\ d.alternative_location = Local <=> (d.location = Azure /\ local_ok)
           /\ d.alternative_location # d.location

\* A long task on a lightly loaded machine goes to azure with local as the
\* alternative.
AlternativeRuleWitness ==
    /\ lastCall.op = "decide"
    /\ lastCall.task = Task("d", "medium", 10, 10, 301, FALSE, TRUE)
    /\ lastCall.reads = Reading(30, 30, "none")
    /\ lastCall.decision.location = Azure
    /\ lastCall.decision.alternative_location = Local

\* C18 -- Confidence range: every decision (local, azure, forced local) on a
\* snapshot with cpu and memory in [0, 1] has its confidence in [0, 1].
ConfidenceRange ==
    lastCall.op = "decide" =>
        (lastCall.decision.confidence >= 0 /\ lastCall.decision.confidence <= 1000)

\* On an idle machine the local confidence is cut at 0.95.
ConfidenceRangeWitness ==
    /\ lastCall.op = "decide"
    /\ lastCall.resources.cpu_percent = 0
    /\ lastCall.resources.memory_percent = 0
    /\ lastCall.decision.reasoning = "local_preferred"
    /\ lastCall.decision.confidence = 950

\* C19 -- Local confidence formula: a local decision that is not the forced
\* fallback has confidence clamp(0.1, 0.95, 0.4 + 0.4 * (1 - cpu) +
\* 0.4 * (1 - memory)) of the snapshot it was taken on.
LocalConfidenceFormula ==
    (lastCall.op = "decide" /\ lastCall.decision.reasoning = "local_preferred") =>
        LET s == lastCall.resources
        IN lastCall.decision.confidence =
               Min(950, Max(100, 400 + 4 * (100 - s.cpu_percent)
                                     + 4 * (100 - s.memory_percent)))

\* C20 -- Forced fallback values: when neither local is feasible without a
\* preference for azure nor azure is feasible, the decision is local with
\* confidence 0.4, 1.5 times the task's duration, cost 0 and no alternative;
\* an azure decision has confidence 0.8.
ForcedFallbackValues ==
    lastCall.op = "decide" =>
        LET d == lastCall.decision
            j == lastCall.judged
            t == lastCall.task
        IN /\ (~(j.local_feasible /\ ~j.prefer_azure)
               /\ ~(azure_available /\ t.can_run_on_azure)) =>
                  /\ d.location = Local
                  /\ d.confidence = 400
                  /\ d.estimated_duration = 15 * t.estimated_duration
                  /\ d.estimated_cost = 0
                  /\ d.alternative_location = NoLocation
           /\ d.location = Azure => d.confidence = 800

\* Scenario C: azure unavailable, cpu 0.9 above the threshold.
ForcedFallbackValuesWitness ==
    /\ lastCall.op = "decide"
    /\ ~azure_available
    /\ lastCall.resources.cpu_percent = 90
    /\ lastCall.task.estimated_duration = 30
    /\ lastCall.decision.location = Local
    /\ lastCall.decision.confidence = 400
    /\ lastCall.decision.estimated_duration = 450

\* C21 -- Forced fallback is a last resort: the forced-fallback decision is
\* returned only when local execution is infeasible and azure is infeasible;
\* a task that is feasible locally never receives it.
ForcedFallbackLastResort ==
    (lastCall.op = "decide" /\ lastCall.decision.reasoning = "local_fallback") =>
        /\ ~lastCall.judged.local_feasible
        /\ ~(azure_available /\ lastCall.task.can_run_on_azure)

\* C22 -- Cost estimate: a local decision (forced or not) costs 0; an azure
\* decision costs 0.01 + (estimated_cpu + estimated_memory) * 0.005 +
\* estimated_duration * 0.001, which is positive.
CostEstimate ==
    lastCall.op = "decide" =>
        LET d == lastCall.decision
            t == lastCall.task
        IN /\ d.location = Local => d.estimated_cost = 0
           /\ d.location = Azure =>
                 /\ d.estimated_cost =
                        1000 + 5 * (t.estimated_cpu + t.estimated_memory)
                             + 100 * t.estimated_duration
                 /\ d.estimated_cost > 0

\* A long task sent to azure: 0.01 + 0.2 * 0.005 + 301 * 0.001 = 0.312.
CostEstimateWitness ==
    /\ lastCall.op = "decide"
    /\ lastCall.task = Task("d", "medium", 10, 10, 301, FALSE, TRUE)
    /\ lastCall.decision.location = Azure
    /\ lastCall.decision.estimated_cost = 31200

\* C30 -- Duration estimate by branch: the task's estimate for a local
\* decision that is not forced, 1.2 times it for azure, 1.5 times it for the
\* forced fallback; so never below the task's estimate, and above it whenever
\* the location is azure.
DurationByBranch ==
    lastCall.op = "decide" =>
        LET d == lastCall.decision
            own == 10 * lastCall.task.estimated_duration
        IN /\ d.reasoning = "local_preferred" => d.estimated_duration = own
           /\ d.location = Azure =>
                 d.estimated_duration = 12 * lastCall.task.estimated_duration
           /\ d.reasoning = "local_fallback" =>
                 d.estimated_duration = 15 * lastCall.task.estimated_duration
           /\ d.estimated_duration >= own
           /\ d.location = Azure => d.estimated_duration > own

\* C30 as amended -- the estimates compared are non-negative, and the azure
\* estimate is above the task's own only when that is positive.
DurationByBranchPositive ==
    (lastCall.op = "decide" /\ lastCall.task.estimated_duration >= 0) =>
        LET d == lastCall.decision
            own == 10 * lastCall.task.estimated_duration
        IN /\ d.reasoning = "local_preferred" => d.estimated_duration = own
           /\ d.location = Azure =>
                 d.estimated_duration = 12 * lastCall.task.estimated_duration
           /\ d.reasoning = "local_fallback" =>
                 d.estimated_duration = 15 * lastCall.task.estimated_duration
           /\ d.estimated_duration >= own
           /\ (d.location = Azure /\ own > 0) => d.estimated_duration > own

\* A task of duration 0 sent to azure because the machine is loaded.
DurationByBranchPositiveWitness ==
    /\ lastCall.op = "decide"
    /\ lastCall.task.estimated_duration = 0
    /\ lastCall.decision.location = Azure
    /\ lastCall.decision.estimated_duration = 0

\* C27 -- Attempt bound: an execute_task call makes at most two attempts;
\* when its primary attempt succeeds there is no attempt at the alternative
\* location: the work function was invoked once and its result is returned,
\* also when an alternative location is set.
AttemptBound ==
    \A r \in AllRecords :
        /\ Len(r.attempts) <= 2
        /\ r.calls <= 2
        /\ PrimaryResult(r) \in WorkResults =>
              /\ Len(r.attempts) = 1
              /\ r.calls = 1
              /\ r.pc = "done"
              /\ r.outcome = [kind |-> "returned", value |-> r.attempts[1].result,
                              error |-> "none"]

AttemptBoundWitness ==
    /\ finished.pc = "done"
    /\ HasAlternative(finished)
    /\ finished.attempts = <<[location |-> Local, result |-> "data"]>>
    /\ finished.calls = 1
    /\ finished.outcome.kind = "returned"

\* A step that is a get_system_status call: it returns a snapshot to its
\* caller, records itself as the last call and starts no coroutine.
StatusStep ==
    /\ lastCall'.op = "status"
    /\ returned' # returned
    /\ exec' = exec

\* C24 -- Idempotence of status: a status call that follows a status call,
\* with no sample, decide or execute call in between (here: no execute_task
\* call was ever issued), returns the same resources and the same history
\* length as the first.
StatusIdempotent ==
    [][ (lastCall.op = "status" /\ exec = EmptyBag /\ finished = IdleExec
         /\ StatusStep) =>
            /\ lastCall'.resources = lastCall.resources
            /\ Len(resource_history') = Len(resource_history) ]_vars

\* C25 -- status is read-only: a status call leaves the history, the registry
\* and the threshold table as they are, and reports the latest snapshot that
\* is already in the history.
StatusReadOnly ==
    [][ StatusStep =>
            /\ resource_history' = resource_history
            /\ running_tasks' = running_tasks
            /\ local_thresholds' = local_thresholds
            /\ resource_history # <<>> =>
                  lastCall'.resources =
                      [resource_history[Len(resource_history)]
                           EXCEPT !.timestamp = 0] ]_vars

TerminationAndDrain ==
    <>[](exec = EmptyBag /\ running_tasks = EmptyRegistry)

\* Two calls ran at once, the last to end was cancelled in its retry, and
\* nothing is left in flight or in the registry.
TerminationAndDrainWitness ==
    /\ exec = EmptyBag
    /\ running_tasks = EmptyRegistry
    /\ finished.pc = "done"
    /\ Len(finished.attempts) = 2
    /\ finished.outcome.kind = "cancelled"
    /\ Len(returned) >= 2

\* A step that is a direct decide_execution_location call.
DecideStep ==
    /\ lastCall'.op = "decide"
    /\ returned' # returned
    /\ exec' = exec

\* C23 -- Monotonicity: with the task, the thresholds and the azure
\* feasibility fixed, of two snapshots on which the decision is local the one
\* with the higher (or equal) cpu and memory load does not get the higher
\* confidence.  The two decisions are the last one and the one being taken.
ConfidenceMonotone ==
    [][ (/\ lastCall.op = "decide"
         /\ DecideStep
         /\ lastCall'.task = lastCall.task
         /\ lastCall.decision.location = Local
         /\ lastCall'.decision.location = Local) =>
            LET s1 == lastCall.resources
                s2 == lastCall'.resources
                c1 == lastCall.decision.confidence
                c2 == lastCall'.decision.confidence
            IN /\ (s1.cpu_percent <= s2.cpu_percent
                   /\ s1.memory_percent <= s2.memory_percent) => c2 <= c1
               /\ (s2.cpu_percent <= s1.cpu_percent
                   /\ s2.memory_percent <= s1.memory_percent) => c1 <= c2 ]_vars

\* A local decision at load 0.7 / 0.7 with confidence 0.44, taken after a
\* sample at load 0.3 / 0.3.
ConfidenceMonotoneWitness ==
    /\ lastCall.op = "decide"
    /\ lastCall.decision.reasoning = "local_preferred"
    /\ lastCall.resources.cpu_percent = 70
    /\ lastCall.decision.confidence = 440
    /\ Len(resource_history) >= 2
    /\ resource_history[Len(resource_history) - 1].cpu_percent = 30

\* C26 -- decide is a pure function of its declared inputs: a decision and
\* an earlier decision on a task with the same fields (the name apart) and a
\* snapshot with the same cpu, memory and gpu values, with the thresholds
\* and the gpu and azure availability unchanged, agree in location,
\* confidence, cost, duration and alternative, whatever the history and the
\* registry hold at the two calls.
DecideIsPure ==
    [][ (/\ lastCall.op = "decide"
         /\ DecideStep
         /\ [lastCall'.task EXCEPT !.name = ""] = [lastCall.task EXCEPT !.name = ""]
         /\ lastCall'.resources.cpu_percent = lastCall.resources.cpu_percent
         /\ lastCall'.resources.memory_percent = lastCall.resources.memory_percent
         /\ lastCall'.resources.gpu_percent = lastCall.resources.gpu_percent) =>
            LET d1 == lastCall.decision
                d2 == lastCall'.decision
            IN /\ d2.location = d1.location
               /\ d2.confidence = d1.confidence
               /\ d2.estimated_cost = d1.estimated_cost
               /\ d2.estimated_duration = d1.estimated_duration
               /\ d2.alternative_location = d1.alternative_location ]_vars

\* A third call, a decision on the load 0.3 / 0.3 taken while a task is
\* running and the history holds two earlier snapshots of the same load.
DecideIsPureWitness ==
    /\ lastCall.op = "decide"
    /\ lastCall.resources.cpu_percent = 30
    /\ Len(resource_history) = 3
    /\ resource_history[1].cpu_percent = 30
    /\ resource_history[2].cpu_percent = 30
    /\ running_tasks # EmptyRegistry
    /\ exec # EmptyBag

====
